---- MODULE Spec2Model ----
(***************************************************************************)
(* The tmux session/window reconciliation engine of global/src/tmux/mod.rs *)
(* (startup_tmux, ensure_window, execute_command, run_command,             *)
(* gather_tmux_state, compare_presumed_vs_actual_state, maybe_attach_tmux, *)
(* determine_commands_for_window), together with the part of the tmux      *)
(* server the engine talks to: sessions as maps from window index to       *)
(* window name.                                                            *)
(***************************************************************************)
EXTENDS Integers, Sequences, FiniteSets, TLC

(***************************************************************************)
(* Bounds of the model.                                                    *)
(***************************************************************************)
\* longest window list of a configured session
MaxWindows == 3
\* highest window index occupied in an initial session of the server
MaxInitIndex == 3
\* invocations of startup_tmux in one behaviour
MaxRuns == 2

(***************************************************************************)
(* Names.                                                                  *)
(***************************************************************************)
SessionNames == {"foo", "work"}
WindowNames == {"bar", "baz", "qux"}
CrateNames == {"k1", "k2"}

\* `let base_index = 1;` of ensure_window: the index of a session's first
\* window on the server the engine is written for (tmux base-index).
base_index == 1

(***************************************************************************)
(* Sequence helpers (Vec operations used by the engine).                   *)
(***************************************************************************)
Range(s) == {s[i] : i \in 1..Len(s)}

\* Vec::contains
Contains(s, x) == \E i \in 1..Len(s) : s[i] = x

\* a Vec that takes the element at its end, whatever the index
VecAppend(s, index, x) == Append(s, x)

\* Vec::insert(index, x) for index <= len (index is zero-based); Rust panics
\* when index > len, which callers model before using this operator.
VecInsert(s, index, x) ==
    [i \in 1..(Len(s) + 1) |->
        IF i <= index THEN s[i] ELSE IF i = index + 1 THEN x ELSE s[i - 1]]

\* the keys a window's env can hold, in the ascending order of String's Ord
EnvKeys == <<"BAZ", "FOO">>

\* BTreeMap::from(pairs): a later pair replaces an earlier one with its key
RECURSIVE BTreeMapFrom(_)
BTreeMapFrom(pairs) ==
    IF pairs = <<>> THEN <<>>
    ELSE LET front == BTreeMapFrom(SubSeq(pairs, 1, Len(pairs) - 1))
             last  == pairs[Len(pairs)]
         IN [k \in DOMAIN front \cup {last[1]} |-> IF k = last[1] THEN last[2] ELSE front[k]]

\* an iteration that yields the entries by descending key
EntriesDescending(map) ==
    LET keys == SelectSeq(EnvKeys, LAMBDA k : k \in DOMAIN map)
    IN [i \in 1..Len(keys) |-> <<keys[Len(keys) + 1 - i], map[keys[Len(keys) + 1 - i]]>>]

\* iteration over a BTreeMap: its (key, value) entries by ascending key
Entries(map) ==
    LET keys == SelectSeq(EnvKeys, LAMBDA k : k \in DOMAIN map)
    IN [i \in 1..Len(keys) |-> <<keys[i], map[keys[i]]>>]

(***************************************************************************)
(* Configuration (config::Window, config::Command, config::Session).       *)
(***************************************************************************)
CommandNone == [kind |-> "None", cmds |-> <<>>]

CommandSingle(c) == [kind |-> "Single", cmds |-> <<c>>]

CommandMultiple(cs) == [kind |-> "Multiple", cmds |-> cs]

\* The windows the engine is run on: one Window value per name, covering a
\* window without startup commands, one with a command list and one with
\* linked crates plus a single command.
WindowDef(n) ==
    CASE n = "bar" -> [name |-> n, linked_crates |-> <<>>, command |-> CommandNone,
                       path |-> "", env |-> BTreeMapFrom(<<>>)]
      [] n = "baz" -> [name |-> n, linked_crates |-> <<>>,
                       command |-> CommandMultiple(<<[kind |-> "command", text |-> "b1"],
                                                     [kind |-> "command", text |-> "b2"]>>),
                       path |-> "/ws/baz", env |-> BTreeMapFrom(<<>>)]
      [] OTHER     -> [name |-> n, linked_crates |-> <<"k1", "k2">>,
                       command |-> CommandSingle([kind |-> "command", text |-> "q1"]),
                       path |-> "/ws/qux",
                       env |-> BTreeMapFrom(<<<<"FOO", "bar">>, <<"BAZ", "qux">>>>)]

\* window lists of a configured session, each window written by its name
WindowLists(maxLen) == UNION {[1..k -> WindowNames] : k \in 1..maxLen}

\* Session { name, windows }
Session(n, ws) == [name |-> n, windows |-> ws]

\* PathBuf of a resolved crate
CratePath(k) == IF k = "k1" THEN "/ws/target/k1" ELSE "/ws/target/k2"

\* BTreeMap<String, PathBuf> produced by gather_crate_locations for the set
\* ks of crates found under the configured locations
CrateMap(ks) == [k \in ks |-> CratePath(k)]

(***************************************************************************)
(* The tmux server: a map session name -> (window index -> window name).   *)
(* A server that is not running is the empty map.                          *)
(***************************************************************************)
RECURSIVE ListFrom(_, _)
ListFrom(wins, rest) ==
    IF rest = {} THEN <<>>
    ELSE LET m == CHOOSE i \in rest : \A j \in rest : i <= j
         IN <<wins[m]>> \o ListFrom(wins, rest \ {m})

\* tmux list-windows -F #{window_name} -t session: names by ascending index
ListWindows(wins) == ListFrom(wins, DOMAIN wins)

\* gather_tmux_state that loses the window names of every session
gather_tmux_state_no_windows(server) == [s \in DOMAIN server |-> <<>>]

\* gather_tmux_state: list-sessions, then list-windows for each session
gather_tmux_state(server) == [s \in DOMAIN server |-> ListWindows(server[s])]

\* tmux new-session -d -s session -n window
TmuxNewSession(server, session, window) ==
    IF session \in DOMAIN server
    THEN [ok |-> FALSE, server |-> server]
    ELSE [ok |-> TRUE,
          server |-> [s \in DOMAIN server \cup {session} |->
                        IF s = session THEN (base_index :> window) ELSE server[s]]]

\* first free index at or after idx
NextFree(wins, idx) ==
    CHOOSE k \in idx..(idx + Cardinality(DOMAIN wins)) :
        /\ k \notin DOMAIN wins
        /\ \A j \in idx..(k - 1) : j \in DOMAIN wins

\* a new-window that takes the target index from the window holding it
InsertOverwrite(wins, idx, window) ==
    [i \in DOMAIN wins \cup {idx} |-> IF i = idx THEN window ELSE wins[i]]

\* new-window -b at a target index: a free index is taken as it is; an
\* occupied one is freed by moving the windows from it up to the next gap
\* one index up.
InsertBefore(wins, idx, window) ==
    IF idx \notin DOMAIN wins
    THEN [i \in DOMAIN wins \cup {idx} |-> IF i = idx THEN window ELSE wins[i]]
    ELSE LET last == NextFree(wins, idx)
         IN [i \in DOMAIN wins \cup {last} |->
               IF i = idx THEN window
               ELSE IF i > idx /\ i <= last THEN wins[i - 1]
               ELSE wins[i]]

\* tmux new-window -t session:target -n window -b
TmuxNewWindow(server, session, target, window) ==
    IF session \notin DOMAIN server
    THEN [ok |-> FALSE, server |-> server]
    ELSE [ok |-> TRUE,
          server |-> [server EXCEPT ![session] = InsertBefore(@, target, window)]]

\* tmux send-keys -t session:window keys Enter: fails when the target names
\* no window; the window topology is not changed.
TmuxSendKeys(server, session, window) ==
    IF session \in DOMAIN server /\ \E i \in DOMAIN server[session] : server[session][i] = window
    THEN [ok |-> TRUE, server |-> server]
    ELSE [ok |-> FALSE, server |-> server]

(***************************************************************************)
(* Commands built by the engine (std::process::Command values).            *)
(***************************************************************************)
NoKeys == [kind |-> "", text |-> ""]

NewSessionCmd(session, window) ==
    [op |-> "new-session", session |-> session, target |-> 0,
     name |-> window.name, keys |-> NoKeys]

\* new-window targeted at the zero-based configuration position
NewWindowCmdNoBase(session, window, window_index) ==
    [op |-> "new-window", session |-> session, target |-> window_index,
     name |-> window.name, keys |-> NoKeys]

\* new-window targeted one index too far
NewWindowCmdOffByOne(session, window, window_index) ==
    [op |-> "new-window", session |-> session, target |-> base_index + window_index + 1,
     name |-> window.name, keys |-> NoKeys]

NewWindowCmd(session, window, window_index) ==
    [op |-> "new-window", session |-> session, target |-> base_index + window_index,
     name |-> window.name, keys |-> NoKeys]

SendKeysCmd(session, window, command) ==
    [op |-> "send-keys", session |-> session, target |-> 0,
     name |-> window.name, keys |-> command]

\* the effect of a command on the server when it is executed
Apply(server, cmd) ==
    CASE cmd.op = "new-session" -> TmuxNewSession(server, cmd.session, cmd.name)
      [] cmd.op = "new-window"  -> TmuxNewWindow(server, cmd.session, cmd.target, cmd.name)
      [] OTHER                  -> TmuxSendKeys(server, cmd.session, cmd.name)

(***************************************************************************)
(* The arguments the engine gives each command, after the program name.    *)
(***************************************************************************)
\* lines 42-46: options.socket_name().unwrap_or_else(|| "default")
get_socket_name(socket) == IF socket = "" THEN "default" ELSE socket

\* lines 219-221, 256-258: `-c path` when the window declares a path
PathArgs(window) == IF window.path = "" THEN <<>> ELSE <<"-c", window.path>>

\* lines 223-227, 260-264: `-e key=value` for each entry of the window's env
EnvArgs(window) ==
    LET entries == Entries(window.env)
    IN [i \in 1..(2 * Len(entries)) |->
          IF i % 2 = 1 THEN "-e"
          ELSE entries[i \div 2][1] \o "=" \o entries[i \div 2][2]]

\* the string typed into a window: a configured command, or the PATH export
\* of a linked crate
KeysText(keys) ==
    IF keys.kind = "export PATH" THEN "export PATH=\"" \o keys.text \o ":$PATH\""
    ELSE keys.text

\* lines 98-104: attach, with -t default_session when there is one
ArgsAttach(cmd, socket) ==
    <<"attach">> \o (IF cmd.session = "" THEN <<>> ELSE <<"-t", cmd.session>>)

\* The argument list of a command of the engine; the Window of a create
\* command is the one configured under its name.
Args(cmd, socket) ==
    CASE cmd.op = "new-session" ->
            <<"-L", get_socket_name(socket), "new-session", "-d", "-s", cmd.session,
              "-n", cmd.name>>
            \o PathArgs(WindowDef(cmd.name)) \o EnvArgs(WindowDef(cmd.name))
      [] cmd.op = "new-window" ->
            <<"-L", get_socket_name(socket), "new-window", "-t",
              cmd.session \o ":" \o ToString(cmd.target), "-n", cmd.name, "-b">>
            \o PathArgs(WindowDef(cmd.name)) \o EnvArgs(WindowDef(cmd.name))
      [] cmd.op = "send-keys" ->
            <<"-L", get_socket_name(socket), "send-keys", "-t",
              cmd.session \o ":" \o cmd.name, KeysText(cmd.keys), "Enter">>
      [] OTHER -> ArgsAttach(cmd, socket)

\* the queries of gather_tmux_state (lines 321-340)
ListSessionsArgs(socket) ==
    <<"-L", get_socket_name(socket), "list-sessions", "-F", "#{session_name}">>

ListWindowsArgs(socket, session) ==
    <<"-L", get_socket_name(socket), "list-windows", "-F", "#{window_name}", "-t", session>>

(***************************************************************************)
(* determine_commands_for_window                                           *)
(***************************************************************************)
\* format!(r#"export PATH="{}:$PATH""#, crate_path)
ExportPath(path) == [kind |-> "export PATH", text |-> path]

\* a planner that leaves out the crates it cannot resolve
RECURSIVE LinkCommandsSkipMissing(_, _)
LinkCommandsSkipMissing(linked_crates, crate_map) ==
    IF linked_crates = <<>> THEN [ok |-> TRUE, missing |-> "", commands |-> <<>>]
    ELSE LET rest == LinkCommandsSkipMissing(Tail(linked_crates), crate_map)
         IN IF Head(linked_crates) \notin DOMAIN crate_map THEN rest
            ELSE [ok |-> TRUE, missing |-> "",
                  commands |-> <<ExportPath(crate_map[Head(linked_crates)])>> \o rest.commands]

RECURSIVE LinkCommands(_, _)
LinkCommands(linked_crates, crate_map) ==
    IF linked_crates = <<>> THEN [ok |-> TRUE, missing |-> "", commands |-> <<>>]
    ELSE IF Head(linked_crates) \notin DOMAIN crate_map
         THEN [ok |-> FALSE, missing |-> Head(linked_crates), commands |-> <<>>]
         ELSE LET rest == LinkCommands(Tail(linked_crates), crate_map)
              IN [ok |-> rest.ok, missing |-> rest.missing,
                  commands |-> IF rest.ok
                               THEN <<ExportPath(crate_map[Head(linked_crates)])>> \o rest.commands
                               ELSE <<>>]

\* the message of the bail!: "Could not find crate: {} for linking into {}"
CrateNotFound(linked_crate, window_name) == [crate |-> linked_crate, window |-> window_name]

NoError == [crate |-> "", window |-> ""]

\* a planner that puts the window's own commands before the PATH exports
determine_commands_for_window_own_first(window, crate_map) ==
    LET links == LinkCommands(window.linked_crates, crate_map)
        cmds == window.command.cmds \o links.commands
    IN IF ~links.ok
       THEN [ok |-> FALSE, some |-> FALSE, commands |-> <<>>,
             error |-> CrateNotFound(links.missing, window.name)]
       ELSE [ok |-> TRUE, some |-> cmds # <<>>, commands |-> cmds, error |-> NoError]

\* a planner that plans what it can resolve instead of failing
determine_commands_for_window_lenient(window, crate_map) ==
    LET links == LinkCommandsSkipMissing(window.linked_crates, crate_map)
        cmds == links.commands \o window.command.cmds
    IN [ok |-> TRUE, some |-> cmds # <<>>, commands |-> cmds, error |-> NoError]

\* Result<Option<Vec<String>>>: ok = FALSE is the bail! (no list), some =
\* FALSE with ok is Ok(None), some = TRUE is Ok(Some(commands))
determine_commands_for_window(window, crate_map) ==
    LET links == LinkCommands(window.linked_crates, crate_map)
        cmds == links.commands \o window.command.cmds
    IN IF ~links.ok
       THEN [ok |-> FALSE, some |-> FALSE, commands |-> <<>>,
             error |-> CrateNotFound(links.missing, window.name)]
       ELSE [ok |-> TRUE, some |-> cmds # <<>>, commands |-> cmds, error |-> NoError]

\* the planner has not been run
NoPlan == [ok |-> TRUE, some |-> FALSE, commands |-> <<>>, error |-> NoError]

(***************************************************************************)
(* State.                                                                  *)
(***************************************************************************)
VARIABLES
    config,         \* Config.tmux: [has_tmux, default_session, sessions]
    crates,         \* result of gather_crate_locations(config)
    is_dry_run,     \* TmuxOptions::is_dry_run
    is_testing,     \* TmuxOptions::_is_testing
    should_attach,  \* TmuxOptions::should_attach: "none", "true" or "false"
    in_tmux,        \* whether $TMUX is set
    server,         \* the tmux server: session -> (index -> window name)
    server0,        \* the server as it was before the first invocation
    current_state,  \* startup_tmux's tracked TmuxState
    commands,       \* startup_tmux's `commands` vector
    issued,         \* commands executed on the server in this run: [cmd, ok]
    keyed,          \* windows that were sent keys, over all runs: a sequence
    pc,             \* "start", "windows", "attach", "done", "exec", "error", "panic"
    cause,          \* why the run ended in "error" or "panic"
    next,           \* position of the window loop in AllWindows
    run,            \* number of the current invocation
    prev,           \* how the previous invocation ended and whether it was a dry run
    pwindow,        \* the Window handed to the planner when it is run on its own
    plan,           \* what determine_commands_for_window returned for pwindow
    query_fails,    \* what goes wrong in startup_tmux's own gather_tmux_state
    socket_name,    \* TmuxOptions::socket_name, "" standing for None
    other,          \* the locals of a second invocation that is not running now
    tree,           \* cache-shell-setup: the files under the source directory
    tree0,          \* the files as they were before run
    temp,           \* cache-shell-setup: the files of run's temporary directory
    todo,           \* source files that process_directory has not visited yet
    cpc,            \* cache-shell-setup: "idle", "start", "processing", "ok", "error"
    strategy        \* Args.destination_strategy: "Clear" or "Merge"

vars == <<config, crates, is_dry_run, is_testing, should_attach, in_tmux, server, server0,
          current_state, commands, issued, keyed, pc, cause, next, run, prev, pwindow, plan,
          query_fails, socket_name, other, tree, tree0, temp, todo, cpc, strategy>>

\* the variables of cache-shell-setup
cachevars == <<tree, tree0, temp, todo, cpc, strategy>>

inputs == <<config, crates, is_testing, should_attach, in_tmux, server0, pwindow, plan,
            query_fails, socket_name, other, cachevars>>

\* there is no second invocation
NoInvocation ==
    [id |-> 0, pc |-> "none", cause |-> "", next |-> 1, current_state |-> <<>>,
     commands |-> <<>>, issued |-> <<>>]

\* cache-shell-setup is not running
CacheIdle ==
    /\ tree = [files |-> <<>>, dest_exists |-> FALSE]
    /\ tree0 = tree
    /\ temp = <<>>
    /\ todo = {}
    /\ cpc = "idle"
    /\ strategy = "Clear"

(***************************************************************************)
(* run_command                                                             *)
(***************************************************************************)
\* run_command without the check of the exit status
run_command_unchecked(srv, cmd, dry, fails) ==
    IF dry THEN [ok |-> TRUE, server |-> srv, ran |-> FALSE]
    ELSE IF fails THEN [ok |-> TRUE, server |-> srv, ran |-> TRUE]
    ELSE LET r == Apply(srv, cmd)
         IN [ok |-> TRUE, server |-> r.server, ran |-> TRUE]

\* run_command without the is_dry_run test
run_command_ignores_dry_run(srv, cmd, dry, fails) ==
    IF fails THEN [ok |-> FALSE, server |-> srv, ran |-> TRUE]
    ELSE LET r == Apply(srv, cmd)
         IN [ok |-> r.ok, server |-> r.server, ran |-> TRUE]

\* `fails` is the outcome of cmd.output() decided outside the engine: the
\* process could not be run or exited non-zero without acting.
run_command(srv, cmd, dry, fails) ==
    IF dry THEN [ok |-> TRUE, server |-> srv, ran |-> FALSE]
    ELSE IF fails THEN [ok |-> FALSE, server |-> srv, ran |-> TRUE]
    ELSE LET r == Apply(srv, cmd)
         IN [ok |-> r.ok, server |-> r.server, ran |-> TRUE]

\* The `?` chain of run_command calls over cmds, from the k-th on: stops at
\* the first failure. failAt is the position of the command that the
\* environment makes fail (0: none).
RECURSIVE RunFrom(_, _, _, _, _)
RunFrom(cmds, k, srv, dry, failAt) ==
    IF k > Len(cmds) THEN [ok |-> TRUE, server |-> srv, executed |-> <<>>, issued |-> <<>>]
    ELSE LET r == run_command(srv, cmds[k], dry, k = failAt)
             log == IF r.ran THEN <<[cmd |-> cmds[k], ok |-> r.ok]>> ELSE <<>>
         IN IF ~r.ok
            THEN [ok |-> FALSE, server |-> r.server, executed |-> <<>>, issued |-> log]
            ELSE LET rest == RunFrom(cmds, k + 1, r.server, dry, failAt)
                 IN [ok |-> rest.ok, server |-> rest.server,
                     executed |-> <<cmds[k]>> \o rest.executed,
                     issued |-> log \o rest.issued]

(***************************************************************************)
(* compare_presumed_vs_actual_state: TRUE when it panics                   *)
(***************************************************************************)
\* a comparison that panics on a difference whatever the flag
compare_presumed_vs_actual_state_always(tracked, srv, testing) ==
    tracked # gather_tmux_state(srv)

\* a comparison that only logs, also under the testing flag
compare_presumed_vs_actual_state_log_only(tracked, srv, testing) == FALSE

\* lines 160-178: the fresh query and the log line change nothing; the
\* panic! is reached when the states differ and _is_testing is set
compare_presumed_vs_actual_state(tracked, srv, testing) ==
    testing /\ tracked # gather_tmux_state(srv)

(***************************************************************************)
(* execute_command: the send-keys commands for a created window            *)
(***************************************************************************)
\* the send-keys commands issued last to first
SendKeysForReversed(session_name, window, crate_map) ==
    LET planned == determine_commands_for_window(window, crate_map)
    IN [ok |-> planned.ok,
        error |-> planned.error,
        cmds |-> IF planned.ok /\ planned.some
                 THEN [i \in 1..Len(planned.commands) |->
                          SendKeysCmd(session_name, window,
                                      planned.commands[Len(planned.commands) + 1 - i])]
                 ELSE <<>>]

SendKeysFor(session_name, window, crate_map) ==
    LET planned == determine_commands_for_window(window, crate_map)
    IN [ok |-> planned.ok,
        error |-> planned.error,
        cmds |-> IF planned.ok /\ planned.some
                 THEN [i \in 1..Len(planned.commands) |->
                          SendKeysCmd(session_name, window, planned.commands[i])]
                 ELSE <<>>]

(***************************************************************************)
(* ensure_window                                                           *)
(***************************************************************************)
Outcome(status, why, tracked, srv, executed, log) ==
    [status |-> status, cause |-> why, current_state |-> tracked, server |-> srv,
     executed |-> executed, issued |-> log]

\* what ensure_window does to the created window's commands and the state
CreateWindow(session_name, window, window_index, crate_map, tracked, srv, dry, testing, failAt) ==
    LET exists == session_name \in DOMAIN tracked
        create == IF exists THEN NewWindowCmd(session_name, window, window_index)
                  ELSE NewSessionCmd(session_name, window)
        keys   == SendKeysFor(session_name, window, crate_map)
        r      == RunFrom(<<create>> \o keys.cmds, 1, srv, dry, failAt)
        tracked2 == IF exists
                    THEN [tracked EXCEPT ![session_name] = VecInsert(@, window_index, window.name)]
                    ELSE [s \in DOMAIN tracked \cup {session_name} |->
                            IF s = session_name THEN <<window.name>> ELSE tracked[s]]
    IN IF ~r.ok THEN Outcome("error", "command", tracked, r.server, <<>>, r.issued)
       ELSE IF ~keys.ok THEN Outcome("error", "crate", tracked, r.server, <<>>, r.issued)
       ELSE IF exists /\ window_index > Len(tracked[session_name])
            THEN Outcome("panic", "insert", tracked, r.server, <<>>, r.issued)
       ELSE IF compare_presumed_vs_actual_state(tracked2, r.server, testing)
            THEN Outcome("panic", "compare", tracked2, r.server, <<>>, r.issued)
       ELSE Outcome("ok", "", tracked2, r.server, r.executed, r.issued)

\* ensure_window without the windows.contains test
ensure_window_always_creates(session_name, window, window_index, crate_map, tracked, srv, dry, testing, failAt) ==
    IF compare_presumed_vs_actual_state(tracked, srv, testing)
    THEN Outcome("panic", "compare", tracked, srv, <<>>, <<>>)
    ELSE CreateWindow(session_name, window, window_index, crate_map, tracked, srv,
                      dry, testing, failAt)

\* ensure_window that types the startup commands into a window it skips
ensure_window_keys_on_skip(session_name, window, window_index, crate_map, tracked, srv, dry, testing, failAt) ==
    IF compare_presumed_vs_actual_state(tracked, srv, testing)
    THEN Outcome("panic", "compare", tracked, srv, <<>>, <<>>)
    ELSE IF session_name \in DOMAIN tracked /\ Contains(tracked[session_name], window.name)
    THEN LET keys == SendKeysFor(session_name, window, crate_map)
             r == RunFrom(keys.cmds, 1, srv, dry, 0)
         IN IF keys.ok /\ r.ok
            THEN Outcome("ok", "", tracked, r.server, r.executed, r.issued)
            ELSE Outcome("error", "command", tracked, r.server, <<>>, r.issued)
    ELSE CreateWindow(session_name, window, window_index, crate_map, tracked, srv,
                      dry, testing, failAt)

ensure_window(session_name, window, window_index, crate_map, tracked, srv, dry, testing, failAt) ==
    IF compare_presumed_vs_actual_state(tracked, srv, testing)
    THEN Outcome("panic", "compare", tracked, srv, <<>>, <<>>)
    ELSE IF session_name \in DOMAIN tracked /\ Contains(tracked[session_name], window.name)
    THEN Outcome("ok", "", tracked, srv, <<>>, <<>>)
    ELSE CreateWindow(session_name, window, window_index, crate_map, tracked, srv,
                      dry, testing, failAt)

\* number of commands ensure_window would run for a window
CommandCount(session_name, window, crate_map, tracked) ==
    IF session_name \in DOMAIN tracked /\ Contains(tracked[session_name], window.name)
    THEN 0
    ELSE 1 + Len(SendKeysFor(session_name, window, crate_map).cmds)

(***************************************************************************)
(* startup_tmux                                                            *)
(***************************************************************************)
\* `for session in &tmux.sessions { for (index, window) in ....enumerate()`
RECURSIVE Flatten(_)
Flatten(sessions) ==
    IF sessions = <<>> THEN <<>>
    ELSE LET s == Head(sessions)
         IN [i \in 1..Len(s.windows) |->
               [session_name |-> s.name, window |-> WindowDef(s.windows[i]), index |-> i - 1]]
            \o Flatten(Tail(sessions))

AllWindows == IF config.has_tmux THEN Flatten(config.sessions) ELSE <<>>

KeyedBy(log) ==
    LET ks == SelectSeq(log, LAMBDA e : e.cmd.op = "send-keys" /\ e.ok)
    IN [i \in 1..Len(ks) |-> <<ks[i].cmd.session, ks[i].cmd.name, ks[i].cmd.keys>>]

\* the session whose list-windows query is the one that fails
QueriedSession == "foo"

\* gather_tmux_state when a query goes wrong. "spawn": tmux cannot be run,
\* the .expect panics (327, 340). "list-sessions", "list-windows": the
\* query exits non-zero printing nothing; the exit status is not read and
\* the empty stdout is parsed (329-349): no session, or QueriedSession
\* without windows.
gather_tmux_state_failing(srv, fails) ==
    CASE fails = "none" -> [ok |-> TRUE, state |-> gather_tmux_state(srv)]
      [] fails = "spawn" -> [ok |-> FALSE, state |-> <<>>]
      [] fails = "list-sessions" -> [ok |-> TRUE, state |-> <<>>]
      [] OTHER -> [ok |-> TRUE,
                   state |-> [s \in DOMAIN srv |->
                                IF s = QueriedSession THEN <<>> ELSE ListWindows(srv[s])]]

\* lines 49-52: gather the state, start with no commands
StartupTmux ==
    /\ pc = "start"
    /\ LET g == gather_tmux_state_failing(server, query_fails)
       IN /\ current_state' = g.state
          /\ pc' = IF ~g.ok THEN "panic" ELSE IF config.has_tmux THEN "windows" ELSE "done"
          /\ cause' = IF ~g.ok THEN "gather" ELSE ""
    /\ commands' = <<>>
    /\ issued' = <<>>
    /\ next' = 1
    /\ UNCHANGED <<inputs, is_dry_run, server, keyed, run, prev>>

\* lines 56-71: one iteration of the window loop
EnsureWindow ==
    /\ pc = "windows"
    /\ next <= Len(AllWindows)
    /\ LET w == AllWindows[next]
           n == IF is_dry_run THEN 0
                ELSE CommandCount(w.session_name, w.window, crates, current_state)
       IN \E failAt \in 0..n :
            \E o \in {ensure_window(w.session_name, w.window, w.index, crates,
                                   current_state, server, is_dry_run, is_testing, failAt)} :
               /\ current_state' = o.current_state
               /\ server' = o.server
               /\ issued' = issued \o o.issued
               /\ keyed' = keyed \o KeyedBy(o.issued)
               /\ commands' = commands \o o.executed
               /\ cause' = o.cause
               /\ pc' = IF o.status = "ok" THEN "windows" ELSE o.status
               /\ next' = IF o.status = "ok" THEN next + 1 ELSE next
    /\ UNCHANGED <<inputs, is_dry_run, run, prev>>

\* the attach command of a configuration that names the first configured
\* session instead of default_session
AttachCmdFirstSession ==
    [op |-> "attach",
     session |-> IF config.sessions = <<>> THEN "" ELSE config.sessions[1].name,
     target |-> 0, name |-> "", keys |-> NoKeys]

\* lines 98-104: `tmux attach`, with `-t default_session` when the
\* configuration has one ("" stands for None)
AttachCmd ==
    [op |-> "attach", session |-> config.default_session, target |-> 0,
     name |-> "", keys |-> NoKeys]

\* the decision that does not look at $TMUX
AttachDecisionIgnoresEnv == should_attach # "false"

\* lines 87-91: options.should_attach().unwrap_or_else(|| !in_tmux())
AttachDecision == IF should_attach = "none" THEN ~in_tmux ELSE should_attach = "true"

\* the exec test without the dry-run flag
ExecAttachInDryRun == ~is_testing

\* line 106: whether the attach command replaces the process
ExecAttach == ~is_dry_run /\ ~is_testing

\* lines 73-76 and maybe_attach_tmux
MaybeAttachTmux ==
    /\ pc = "windows"
    /\ next > Len(AllWindows)
    /\ LET decided == AttachDecision
       IN IF ~decided
          THEN /\ pc' = "done"
               /\ UNCHANGED <<commands, issued, cause>>
          ELSE IF ExecAttach
          THEN \E replaced \in BOOLEAN :
                 /\ issued' = Append(issued, [cmd |-> AttachCmd, ok |-> replaced])
                 /\ pc' = IF replaced THEN "exec" ELSE "error"
                 /\ cause' = IF replaced THEN "" ELSE "exec"
                 /\ UNCHANGED commands
          ELSE /\ commands' = Append(commands, AttachCmd)
               /\ pc' = "done"
               /\ UNCHANGED <<issued, cause>>
    /\ UNCHANGED <<inputs, is_dry_run, server, current_state, keyed, next, run, prev>>

\* the tool is invoked again with the same configuration and options: a new
\* process, which holds nothing of the previous one
Reinvoke ==
    /\ pc \in {"done", "exec", "error", "panic"}
    /\ run < MaxRuns
    /\ run' = run + 1
    /\ prev' = [pc |-> pc, cause |-> cause, dry |-> is_dry_run]
    /\ pc' = "start"
    /\ current_state' = <<>>
    /\ commands' = <<>>
    /\ issued' = <<>>
    /\ cause' = ""
    /\ next' = 1
    /\ UNCHANGED <<inputs, is_dry_run, server, keyed>>

\* one invocation of startup_tmux
Next == StartupTmux \/ EnsureWindow \/ MaybeAttachTmux

\* invocations one after another
NextRerun == StartupTmux \/ EnsureWindow \/ MaybeAttachTmux \/ Reinvoke

(***************************************************************************)
(* Initial states.                                                         *)
(***************************************************************************)
\* configurations: none, one session, or two one-window sessions (the second
\* possibly repeating the name of the first)
Configs ==
    LET one == {<<Session("foo", ws)>> : ws \in WindowLists(MaxWindows)}
        two == {<<Session("foo", ws), Session(n, <<w>>)>> :
                  ws \in WindowLists(1), n \in SessionNames, w \in WindowNames}
    IN {[has_tmux |-> TRUE, default_session |-> "", sessions |-> ss] : ss \in one \cup two}
       \cup {[has_tmux |-> FALSE, default_session |-> "", sessions |-> <<>>]}

\* window maps of a session of the server: one or two windows, at any indices
WindowMaps ==
    UNION {[d -> WindowNames] :
             d \in {e \in SUBSET (1..MaxInitIndex) : Cardinality(e) \in {1, 2}}}

Servers ==
    {<<>>} \cup {("foo" :> wins) : wins \in WindowMaps}
           \cup {("work" :> (base_index :> "bar"))}

ServersRerun ==
    {<<>>} \cup {("foo" :> (i :> w)) : i \in 1..MaxInitIndex, w \in WindowNames}
           \cup {("work" :> (base_index :> "bar"))}

\* crate maps: every crate resolved, or "k2" not found; the map is only read
\* for a window with linked crates
CrateMaps(cfg) ==
    IF \E i \in 1..Len(cfg.sessions) :
          \E j \in 1..Len(cfg.sessions[i].windows) :
             WindowDef(cfg.sessions[i].windows[j]).linked_crates # <<>>
    THEN {CrateMap(CrateNames), CrateMap({"k1"})}
    ELSE {CrateMap(CrateNames)}

InitWith(servers) ==
    /\ config \in Configs
    /\ crates \in CrateMaps(config)
    /\ is_dry_run \in BOOLEAN
    /\ is_testing \in BOOLEAN
    /\ should_attach = "none"
    /\ in_tmux = FALSE
    /\ server \in servers
    /\ server0 = server
    /\ current_state = <<>>
    /\ commands = <<>>
    /\ issued = <<>>
    /\ keyed = <<>>
    /\ pc = "start"
    /\ cause = ""
    /\ next = 1
    /\ run = 1
    /\ prev = [pc |-> "none", cause |-> "", dry |-> FALSE]
    /\ pwindow = WindowDef("bar")
    /\ plan = NoPlan
    /\ query_fails = "none"
    /\ socket_name = ""
    /\ other = NoInvocation
    /\ CacheIdle

Init == InitWith(Servers)

InitRerun == InitWith(ServersRerun)

\* one invocation, from every initial server
Spec == Init /\ [][Next]_vars

\* up to MaxRuns invocations, from a server that is not running or holds
\* one session with one window
SpecRerun == InitRerun /\ [][NextRerun]_vars

(***************************************************************************)
(* The attach step under every option: should_attach, $TMUX, the flags,    *)
(* and configurations with and without default_session.                    *)
(***************************************************************************)
\* default_session: None, a configured session, a session nobody declares
DefaultSessions == {"", "foo", "work"}

ConfigsAttach ==
    {[has_tmux |-> TRUE, default_session |-> d, sessions |-> ss] :
        d \in DefaultSessions,
        ss \in {<<>>, <<Session("foo", <<"bar">>)>>, <<Session("foo", <<"bar", "baz">>)>>}}
    \cup {[has_tmux |-> FALSE, default_session |-> "", sessions |-> <<>>]}

\* TmuxOptions::socket_name: None, or the socket of a server of its own
SocketNames == {"", "work-socket"}

ServersAttach ==
    {<<>>, ("foo" :> (base_index :> "bar")), ("work" :> (base_index :> "bar"))}

InitAttach ==
    /\ config \in ConfigsAttach
    /\ crates = CrateMap(CrateNames)
    /\ is_dry_run \in BOOLEAN
    /\ is_testing \in BOOLEAN
    /\ should_attach \in {"none", "true", "false"}
    /\ in_tmux \in BOOLEAN
    /\ server \in ServersAttach
    /\ server0 = server
    /\ current_state = <<>>
    /\ commands = <<>>
    /\ issued = <<>>
    /\ keyed = <<>>
    /\ pc = "start"
    /\ cause = ""
    /\ next = 1
    /\ run = 1
    /\ prev = [pc |-> "none", cause |-> "", dry |-> FALSE]
    /\ pwindow = WindowDef("bar")
    /\ plan = NoPlan
    /\ query_fails = "none"
    /\ socket_name \in SocketNames
    /\ other = NoInvocation
    /\ CacheIdle

SpecAttach == InitAttach /\ [][Next]_vars

(***************************************************************************)
(* An invocation whose own gather_tmux_state meets a failing query. The    *)
(* comparisons of the testing flag query again, without failure.           *)
(***************************************************************************)
QueryFailures == {"none", "spawn", "list-sessions", "list-windows"}

ConfigsQuery ==
    {[has_tmux |-> TRUE, default_session |-> "", sessions |-> <<Session("foo", ws)>>] :
        ws \in WindowLists(2)}

ServersQuery ==
    {<<>>} \cup {("foo" :> (i :> w)) : i \in 1..2, w \in WindowNames}
           \cup {("foo" :> ((1 :> "bar") @@ (2 :> "baz")))}

InitQuery ==
    /\ config \in ConfigsQuery
    /\ crates = CrateMap(CrateNames)
    /\ is_dry_run \in BOOLEAN
    /\ is_testing \in BOOLEAN
    /\ should_attach = "false"
    /\ in_tmux = FALSE
    /\ server \in ServersQuery
    /\ server0 = server
    /\ current_state = <<>>
    /\ commands = <<>>
    /\ issued = <<>>
    /\ keyed = <<>>
    /\ pc = "start"
    /\ cause = ""
    /\ next = 1
    /\ run = 1
    /\ prev = [pc |-> "none", cause |-> "", dry |-> FALSE]
    /\ pwindow = WindowDef("bar")
    /\ plan = NoPlan
    /\ query_fails \in QueryFailures
    /\ socket_name = ""
    /\ other = NoInvocation
    /\ CacheIdle

SpecQuery == InitQuery /\ [][Next]_vars

(***************************************************************************)
(* The planner on its own: determine_commands_for_window on any window     *)
(* and crate map, then execute_command for that window in a session that   *)
(* holds it.                                                               *)
(***************************************************************************)
\* length of the longest linked_crates list
MaxLinked == 2

Seqs(S, n) == UNION {[1..k -> S] : k \in 0..n}

PlannerCommands ==
    LET c1 == [kind |-> "command", text |-> "c1"]
        c2 == [kind |-> "command", text |-> "c2"]
    IN {CommandNone, CommandSingle(c1), CommandMultiple(<<>>), CommandMultiple(<<c1>>),
        CommandMultiple(<<c1, c2>>)}

PlannerWindows ==
    {[name |-> "bar", linked_crates |-> lc, command |-> c] :
        lc \in Seqs(CrateNames, MaxLinked), c \in PlannerCommands}

InitPlanner ==
    /\ pwindow \in PlannerWindows
    /\ crates \in {CrateMap(S) : S \in SUBSET CrateNames}
    /\ plan = NoPlan
    /\ is_dry_run \in BOOLEAN
    /\ is_testing = FALSE
    /\ config = [has_tmux |-> TRUE, default_session |-> "",
                 sessions |-> <<Session("foo", <<"bar">>)>>]
    /\ should_attach = "none"
    /\ in_tmux = FALSE
    /\ server = ("foo" :> (base_index :> "bar"))
    /\ server0 = server
    /\ current_state = gather_tmux_state(server)
    /\ commands = <<>>
    /\ issued = <<>>
    /\ keyed = <<>>
    /\ pc = "planner"
    /\ cause = ""
    /\ next = 1
    /\ run = 1
    /\ prev = [pc |-> "none", cause |-> "", dry |-> FALSE]
    /\ query_fails = "none"
    /\ socket_name = ""
    /\ other = NoInvocation
    /\ CacheIdle

\* determine_commands_for_window(window, crates)
DetermineCommands ==
    /\ pc = "planner"
    /\ plan' = determine_commands_for_window(pwindow, crates)
    /\ pc' = "planned"
    /\ UNCHANGED <<config, crates, is_dry_run, is_testing, should_attach, in_tmux, server,
                   server0, current_state, commands, issued, keyed, cause, next, run, prev,
                   pwindow, query_fails, socket_name, other, cachevars>>

\* execute_command(session_name, window, crates, options), lines 280-308
ExecuteCommand ==
    /\ pc = "planned"
    /\ LET keys == SendKeysFor("foo", pwindow, crates)
       IN IF ~keys.ok
          THEN /\ pc' = "error"
               /\ cause' = "crate"
               /\ UNCHANGED <<commands, issued, server>>
          ELSE \E failAt \in 0..(IF is_dry_run THEN 0 ELSE Len(keys.cmds)) :
                 LET r == RunFrom(keys.cmds, 1, server, is_dry_run, failAt)
                 IN /\ issued' = r.issued
                    /\ commands' = r.executed
                    /\ server' = r.server
                    /\ pc' = IF r.ok THEN "executed" ELSE "error"
                    /\ cause' = IF r.ok THEN "" ELSE "command"
    /\ UNCHANGED <<config, crates, is_dry_run, is_testing, should_attach, in_tmux, server0,
                   current_state, keyed, next, run, prev, pwindow, plan, query_fails, socket_name, other,
                   cachevars>>

NextPlanner == DetermineCommands \/ ExecuteCommand

SpecPlanner == InitPlanner /\ [][NextPlanner]_vars

(***************************************************************************)
(* cache-shell-setup (global/src/bin/cache-shell-startup.rs): run expands  *)
(* the files of a source directory into a temporary directory and then     *)
(* moves the result to the destination. Paths are sequences of names; a    *)
(* source line is [prefix, text].                                          *)
(***************************************************************************)
\* --source and --destination: the destination lies inside the source
SourceDir == <<"zsh">>
DestDir == <<"zsh", "dist">>

\* Path::starts_with
StartsWith(path, dir) == Len(path) >= Len(dir) /\ SubSeq(path, 1, Len(dir)) = dir

\* Path::strip_prefix
StripPrefix(path, dir) == SubSeq(path, Len(dir) + 1, Len(path))

\* parse_line: the action of a source line
parse_line(line) ==
    CASE line.prefix = "# CMD:" -> [action |-> "Command", arg |-> line.text, silent |-> FALSE]
      [] line.prefix = "# CMD_SILENT:" -> [action |-> "Command", arg |-> line.text, silent |-> TRUE]
      [] line.prefix = "# FETCH:" -> [action |-> "Fetch", arg |-> line.text, silent |-> FALSE]
      [] OTHER -> [action |-> "Other", arg |-> line, silent |-> FALSE]

\* the commands that exit non-zero and the URLs that cannot be fetched
FailingCommands == {"zomg-wtf-bbq"}
FailingUrls == {"http://down"}

\* handle_command: `sh -c command`
handle_command(command, silent) ==
    IF command \in FailingCommands THEN [ok |-> FALSE, lines |-> <<>>]
    ELSE IF silent THEN [ok |-> TRUE, lines |-> <<[prefix |-> "stdout of", text |-> command]>>]
    ELSE [ok |-> TRUE, lines |-> <<[prefix |-> "# CMD:", text |-> command],
                                   [prefix |-> "# OUTPUT START/END:", text |-> command]>>]

\* handle_fetch
handle_fetch(url) ==
    IF url \in FailingUrls THEN [ok |-> FALSE, lines |-> <<>>]
    ELSE [ok |-> TRUE, lines |-> <<[prefix |-> "# FETCH:", text |-> url],
                                   [prefix |-> "# FETCHED CONTENT START/END:", text |-> url]>>]

\* process_file, lines 118-133: the new content, or the first failure
RECURSIVE NewContent(_)
NewContent(lines) ==
    IF lines = <<>> THEN [ok |-> TRUE, lines |-> <<>>]
    ELSE LET a == parse_line(Head(lines))
             r == CASE a.action = "Command" -> handle_command(a.arg, a.silent)
                    [] a.action = "Fetch" -> handle_fetch(a.arg)
                    [] OTHER -> [ok |-> TRUE, lines |-> <<a.arg>>]
         IN IF ~r.ok THEN [ok |-> FALSE, lines |-> <<>>]
            ELSE LET rest == NewContent(Tail(lines))
                 IN [ok |-> rest.ok, lines |-> IF rest.ok THEN r.lines \o rest.lines ELSE <<>>]

\* the files process_directory visits: under the source, not under the
\* final destination (lines 163-165)
SourceFiles(files) ==
    {path \in DOMAIN files : StartsWith(path, SourceDir) /\ ~StartsWith(path, DestDir)}

\* a run that expands the files straight into the destination
ProcessIntoDestination == "destination"

\* line 260: process_directory(source_dir, temp_dest_dir, dest_dir)
ProcessInto == "temp"

\* a function with one more entry
WithFile(files, path, content) ==
    [q \in DOMAIN files \cup {path} |-> IF q = path THEN content ELSE files[q]]

\* lines 226-258: arguments read, temporary directory created
RunCache ==
    /\ cpc = "start"
    /\ temp' = <<>>
    /\ todo' = SourceFiles(tree.files)
    /\ cpc' = "processing"
    /\ UNCHANGED <<tree, tree0, strategy>>
    /\ UNCHANGED <<config, crates, is_dry_run, is_testing, should_attach, in_tmux, server,
                   server0, current_state, commands, issued, keyed, pc, cause, next, run,
                   prev, pwindow, plan, query_fails, socket_name, other>>

\* process_directory reaches one more file, in the order read_dir gives;
\* process_file writes the file once all its lines are expanded (108-154);
\* a failure leaves run through `?` and the temporary directory is dropped
ProcessFile ==
    /\ cpc = "processing"
    /\ \E path \in todo :
          LET r == NewContent(tree.files[path])
              relative_path == StripPrefix(path, SourceDir)
          IN IF ~r.ok
             THEN /\ cpc' = "error"
                  /\ temp' = <<>>
                  /\ UNCHANGED <<tree, todo>>
             ELSE /\ cpc' = cpc
                  /\ todo' = todo \ {path}
                  /\ IF ProcessInto = "temp"
                     THEN /\ temp' = WithFile(temp, relative_path, r.lines)
                          /\ UNCHANGED tree
                     ELSE /\ tree' = [files |-> WithFile(tree.files, DestDir \o relative_path,
                                                         r.lines),
                                      dest_exists |-> TRUE]
                          /\ UNCHANGED temp
    /\ UNCHANGED <<tree0, strategy>>
    /\ UNCHANGED <<config, crates, is_dry_run, is_testing, should_attach, in_tmux, server,
                   server0, current_state, commands, issued, keyed, pc, cause, next, run,
                   prev, pwindow, plan, query_fails, socket_name, other>>

\* lines 263-270: clear the destination, copy the temporary directory in
FinishRun ==
    /\ cpc = "processing"
    /\ todo = {}
    /\ LET clear == strategy = "Clear" /\ tree.dest_exists
           keptPaths == {q \in DOMAIN tree.files : ~(clear /\ StartsWith(q, DestDir))}
           newPaths == {DestDir \o rel : rel \in DOMAIN temp}
       IN tree' = [files |-> [q \in keptPaths \cup newPaths |->
                                 IF q \in newPaths THEN temp[StripPrefix(q, DestDir)]
                                 ELSE tree.files[q]],
                   dest_exists |-> TRUE]
    /\ temp' = <<>>
    /\ cpc' = "ok"
    /\ UNCHANGED <<tree0, todo, strategy>>
    /\ UNCHANGED <<config, crates, is_dry_run, is_testing, should_attach, in_tmux, server,
                   server0, current_state, commands, issued, keyed, pc, cause, next, run,
                   prev, pwindow, plan, query_fails, socket_name, other>>

NextCache == RunCache \/ ProcessFile \/ FinishRun

\* longest source file, in lines
MaxLines == 2

SourceLines ==
    {[prefix |-> "", text |-> "export EDITOR=vim"],
     [prefix |-> "# CMD:", text |-> "echo hello"],
     [prefix |-> "# CMD:", text |-> "zomg-wtf-bbq"],
     [prefix |-> "# CMD_SILENT:", text |-> "echo hello"],
     [prefix |-> "# FETCH:", text |-> "http://up"],
     [prefix |-> "# FETCH:", text |-> "http://down"]}

Original == <<[prefix |-> "", text |-> "# original contents; before running caching"]>>

\* the destination before the run: absent, the output of an earlier run, or
\* a file no source file stands for
Destinations ==
    {<<>>,
     (<<"zsh", "dist", "zshrc">> :> Original) @@ (<<"zsh", "dist", "plugins", "thing.zsh">> :> Original),
     (<<"zsh", "dist", "stale.zsh">> :> Original)}

InitCache ==
    /\ \E a \in Seqs(SourceLines, MaxLines) \ {<<>>}, b \in Seqs(SourceLines, 1) \ {<<>>},
          d \in Destinations :
          tree = [files |-> (<<"zsh", "zshrc">> :> a) @@ (<<"zsh", "plugins", "thing.zsh">> :> b) @@ d,
                  dest_exists |-> d # <<>>]
    /\ tree0 = tree
    /\ temp = <<>>
    /\ todo = {}
    /\ cpc = "start"
    /\ strategy \in {"Clear", "Merge"}
    /\ config = [has_tmux |-> FALSE, default_session |-> "", sessions |-> <<>>]
    /\ crates = CrateMap(CrateNames)
    /\ is_dry_run = FALSE
    /\ is_testing = FALSE
    /\ should_attach = "none"
    /\ in_tmux = FALSE
    /\ server = <<>>
    /\ server0 = server
    /\ current_state = <<>>
    /\ commands = <<>>
    /\ issued = <<>>
    /\ keyed = <<>>
    /\ pc = "idle"
    /\ cause = ""
    /\ next = 1
    /\ run = 1
    /\ prev = [pc |-> "none", cause |-> "", dry |-> FALSE]
    /\ pwindow = WindowDef("bar")
    /\ plan = NoPlan
    /\ query_fails = "none"
    /\ socket_name = ""
    /\ other = NoInvocation

SpecCache == InitCache /\ [][NextCache]_vars

(***************************************************************************)
(* Two invocations of startup_tmux against one server. Each is a process   *)
(* of its own with its own locals; they share nothing but the server. The  *)
(* variables of the engine hold the locals of the invocation that is       *)
(* running, `other` those of the one that is not, and the scheduler may    *)
(* switch between them after any step. `run` names the running invocation. *)
(***************************************************************************)
Locals(id) ==
    [id |-> id, pc |-> pc, cause |-> cause, next |-> next, current_state |-> current_state,
     commands |-> commands, issued |-> issued]

Switch ==
    /\ other.pc \in {"start", "windows"}
    /\ other' = Locals(run)
    /\ run' = other.id
    /\ pc' = other.pc
    /\ cause' = other.cause
    /\ next' = other.next
    /\ current_state' = other.current_state
    /\ commands' = other.commands
    /\ issued' = other.issued
    /\ UNCHANGED <<config, crates, is_dry_run, is_testing, should_attach, in_tmux, server,
                   server0, keyed, prev, pwindow, plan, query_fails, socket_name, cachevars>>

NextConcurrent == StartupTmux \/ EnsureWindow \/ MaybeAttachTmux \/ Switch

\* one session, no window named twice
ConfigsConcurrent ==
    {[has_tmux |-> TRUE, default_session |-> "", sessions |-> <<Session("foo", ws)>>] :
        ws \in {l \in WindowLists(MaxWindows) : \A i, j \in DOMAIN l : l[i] = l[j] => i = j}}

ServersConcurrent == {<<>>, ("foo" :> (base_index :> "bar"))}

InitConcurrent ==
    /\ config \in ConfigsConcurrent
    /\ crates \in CrateMaps(config)
    /\ is_dry_run = FALSE
    /\ is_testing \in BOOLEAN
    /\ should_attach = "none"
    /\ in_tmux = FALSE
    /\ server \in ServersConcurrent
    /\ server0 = server
    /\ current_state = <<>>
    /\ commands = <<>>
    /\ issued = <<>>
    /\ keyed = <<>>
    /\ pc = "start"
    /\ cause = ""
    /\ next = 1
    /\ run = 1
    /\ prev = [pc |-> "none", cause |-> "", dry |-> FALSE]
    /\ pwindow = WindowDef("bar")
    /\ plan = NoPlan
    /\ query_fails = "none"
    /\ socket_name = ""
    /\ other = [NoInvocation EXCEPT !.id = 2, !.pc = "start"]
    /\ CacheIdle

SpecConcurrent == InitConcurrent /\ [][NextConcurrent]_vars

(***************************************************************************)
(* Vocabulary of the properties.                                           *)
(***************************************************************************)
IsCreate(cmd) == cmd.op \in {"new-session", "new-window"}

IsMutating(cmd) == cmd.op \in {"new-session", "new-window", "send-keys"}

\* the invocation went through every window and the attach step
Succeeded == pc \in {"done", "exec"}

Finished == pc \in {"done", "exec", "error", "panic"}

\* window names of a session of the server, as a set
NamesIn(srv, session) ==
    IF session \in DOMAIN srv THEN {srv[session][i] : i \in DOMAIN srv[session]} ELSE {}

\* no session holds two windows of the same name
NoDuplicates(srv) ==
    \A s \in DOMAIN srv : \A i, j \in DOMAIN srv[s] : srv[s][i] = srv[s][j] => i = j

Distinct(seq) == \A i, j \in 1..Len(seq) : seq[i] = seq[j] => i = j

\* the configured sessions named n
SessionsNamed(n) == {i \in 1..Len(config.sessions) : config.sessions[i].name = n}

\* some linked crate of the window is not in the crate map
Unresolved(window) ==
    \E i \in 1..Len(window.linked_crates) : window.linked_crates[i] \notin DOMAIN crates

\* the commands of a list that address session:window
About(cmd, session_name, window) == cmd.session = session_name /\ cmd.name = window.name

(***************************************************************************)
(* C1. Idempotence: when a non-dry-run invocation has gone through and the *)
(* tool is invoked again with the same configuration, the second           *)
(* invocation executes and returns no new-session, new-window or send-keys *)
(* command: its list holds at most the attach command.                     *)
(***************************************************************************)
C1_Idempotence ==
    (run > 1 /\ prev.pc \in {"done", "exec"} /\ ~prev.dry)
        => /\ \A i \in 1..Len(commands) : commands[i].op = "attach"
           /\ \A i \in 1..Len(issued) : issued[i].cmd.op = "attach"
           /\ Len(commands) <= 1
           /\ pc \notin {"error", "panic"} \/ cause = "exec"

\* a second invocation ended after a first one that created windows and
\* typed their commands
C1_Witness ==
    /\ run = 2 /\ prev.pc = "done" /\ ~prev.dry
    /\ pc = "done"
    /\ Len(keyed) >= 3
    /\ commands = <<AttachCmd>>

(***************************************************************************)
(* C2. Tracked state equals actual state: in a non-dry-run invocation, at  *)
(* every checkpoint of ensure_window (before a window is examined, after   *)
(* its create/skip step) the tracked state equals what a fresh             *)
(* gather_tmux_state returns. The checkpoints are the states between two   *)
(* iterations of the window loop and the state in which the comparison     *)
(* panicked.                                                               *)
(***************************************************************************)
AtCheckpoint == pc = "windows" \/ (pc = "panic" /\ cause = "compare")

C2_TrackedEqualsActual ==
    (~is_dry_run /\ AtCheckpoint) => current_state = gather_tmux_state(server)

(***************************************************************************)
(* C3. Index preservation: when a session exists whose windows are all     *)
(* declared in the configuration (distinct names), stand in the            *)
(* configuration's relative order and occupy the indices 1..n, then after  *)
(* a successful invocation the session's window order is the               *)
(* configuration's window order.                                           *)
(***************************************************************************)
PositionIn(seq, x) == CHOOSE k \in 1..Len(seq) : seq[k] = x

InConfigOrder(pre, ws) ==
    /\ \A i \in 1..Len(pre) : Contains(ws, pre[i])
    /\ \A i, j \in 1..Len(pre) : i < j => PositionIn(ws, pre[i]) < PositionIn(ws, pre[j])

C3_Applies(i) ==
    LET s == config.sessions[i].name
        ws == config.sessions[i].windows
    IN /\ run = 1 /\ ~is_dry_run
       /\ SessionsNamed(s) = {i}
       /\ Distinct(ws)
       /\ s \in DOMAIN server0
       /\ DOMAIN server0[s] = 1..Cardinality(DOMAIN server0[s])
       /\ InConfigOrder(ListWindows(server0[s]), ws)

C3_IndexPreservation ==
    \A i \in 1..Len(config.sessions) :
        (C3_Applies(i) /\ Succeeded)
            => ListWindows(server[config.sessions[i].name]) = config.sessions[i].windows

\* existing [bar, qux] with configuration [bar, baz, qux] ended as [bar, baz, qux]
C3_Witness ==
    /\ C3_Applies(1) /\ Succeeded
    /\ ListWindows(server0["foo"]) = <<"bar", "qux">>
    /\ config.sessions[1].windows = <<"bar", "baz", "qux">>
    /\ ListWindows(server["foo"]) = <<"bar", "baz", "qux">>

(***************************************************************************)
(* C4. Fresh-session creation: when the server has no session of the       *)
(* configured name, a session declared with n distinct windows is          *)
(* reconciled by one new-session (creating the first window) followed by   *)
(* n-1 new-window commands, the k-th window targeted at index k, and the   *)
(* session's window order is then the declared one.                        *)
(***************************************************************************)
CreatesFor(log, s) ==
    LET sel == SelectSeq(log, LAMBDA e : IsCreate(e.cmd) /\ e.cmd.session = s)
    IN [k \in 1..Len(sel) |-> sel[k].cmd]

ExpectedCreates(s, ws) ==
    [k \in 1..Len(ws) |->
        IF k = 1 THEN [op |-> "new-session", session |-> s, target |-> 0,
                       name |-> ws[1], keys |-> NoKeys]
        ELSE [op |-> "new-window", session |-> s, target |-> k,
              name |-> ws[k], keys |-> NoKeys]]

C4_Applies(i) ==
    LET s == config.sessions[i].name
    IN /\ run = 1 /\ ~is_dry_run
       /\ SessionsNamed(s) = {i}
       /\ Distinct(config.sessions[i].windows)
       /\ s \notin DOMAIN server0

C4_FreshSession ==
    \A i \in 1..Len(config.sessions) :
        (C4_Applies(i) /\ Succeeded)
            => LET s == config.sessions[i].name
                   ws == config.sessions[i].windows
               IN /\ CreatesFor(issued, s) = ExpectedCreates(s, ws)
                  /\ s \in DOMAIN server
                  /\ ListWindows(server[s]) = ws
                  /\ \A k \in 1..Len(ws) : server[s][k] = ws[k]

\* three windows were created in a session of a server that was not running
C4_Witness ==
    /\ C4_Applies(1) /\ Succeeded
    /\ server0 = <<>>
    /\ Len(config.sessions[1].windows) = 3
    /\ Len(CreatesFor(issued, "foo")) = 3

(***************************************************************************)
(* C5. Startup commands only at creation, at most once: every send-keys    *)
(* follows, within the same ensure_window step, the create command of the  *)
(* window it addresses, and over all invocations no window is sent the     *)
(* same startup command twice.                                             *)
(***************************************************************************)
\* issued[i] belongs to the block of commands opened by the create issued[j]
FollowsCreate(i, j) ==
    /\ j < i
    /\ IsCreate(issued[j].cmd) /\ issued[j].ok
    /\ issued[j].cmd.session = issued[i].cmd.session
    /\ issued[j].cmd.name = issued[i].cmd.name
    /\ \A k \in (j + 1)..i : issued[k].cmd.op = "send-keys"

C5_KeysOnlyAtCreation ==
    /\ \A i \in 1..Len(issued) :
          issued[i].cmd.op = "send-keys" => \E j \in 1..Len(issued) : FollowsCreate(i, j)
    /\ Distinct(keyed)

\* a second invocation found a window with startup commands that the first
\* one had created, and passed it
C5_Witness ==
    /\ run = 2 /\ ~is_dry_run /\ Succeeded
    /\ Len(keyed) >= 2
    /\ issued = <<>>
    /\ \E k \in 1..Len(AllWindows) :
          AllWindows[k].window.command.cmds # <<>>
          /\ \E e \in Range(keyed) : e[1] = AllWindows[k].session_name
                                     /\ e[2] = AllWindows[k].window.name

(***************************************************************************)
(* C6. Unresolvable linked crate is fatal for the whole run. As claimed:   *)
(* whenever some configured window lists a linked crate that is not in the *)
(* crate map, the invocation does not succeed.                             *)
(***************************************************************************)
C6_UnresolvedCrateIsFatal ==
    (Finished /\ \E k \in 1..Len(AllWindows) : Unresolved(AllWindows[k].window))
        => ~Succeeded

(***************************************************************************)
(* C6, amended. A window with an unresolved linked crate is fatal when the *)
(* run has to create it: the loop never moves past such a window after     *)
(* creating it, the run that met the unresolved crate stopped at that      *)
(* window with its create command as the last command executed, and a      *)
(* window the loop moved past was one already present (skipped).           *)
(***************************************************************************)
CreatedInRun(session_name, window) ==
    \/ \E i \in 1..Len(commands) :
          IsCreate(commands[i]) /\ About(commands[i], session_name, window)
    \/ \E i \in 1..Len(issued) :
          IsCreate(issued[i].cmd) /\ issued[i].ok
          /\ About(issued[i].cmd, session_name, window)

C6_UnresolvedCrateStopsRun ==
    /\ \A k \in 1..Len(AllWindows) :
          (Unresolved(AllWindows[k].window) /\ (k < next \/ Succeeded))
              => ~CreatedInRun(AllWindows[k].session_name, AllWindows[k].window)
    /\ (pc = "error" /\ cause = "crate")
          => /\ Unresolved(AllWindows[next].window)
             /\ ~is_dry_run =>
                   /\ issued # <<>>
                   /\ IsCreate(issued[Len(issued)].cmd)
                   /\ About(issued[Len(issued)].cmd, AllWindows[next].session_name,
                            AllWindows[next].window)
             /\ \A i \in 1..Len(commands) :
                   \E k \in 1..(next - 1) :
                      About(commands[i], AllWindows[k].session_name, AllWindows[k].window)

\* the run stopped at a window with an unresolved crate although windows
\* are declared after it, having created a window before it
C6_Witness ==
    /\ pc = "error" /\ cause = "crate" /\ ~is_dry_run
    /\ next > 1 /\ next < Len(AllWindows)
    /\ Len(issued) >= 2

(***************************************************************************)
(* C7. Linked-crate failure precedes any mutation for that window: when    *)
(* the run fails on an unresolved linked crate, no command addressing that *)
(* window (its new-session/new-window, a send-keys) has been executed.     *)
(***************************************************************************)
C7_CrateErrorBeforeMutation ==
    (pc = "error" /\ cause = "crate")
        => \A i \in 1..Len(issued) :
              ~About(issued[i].cmd, AllWindows[next].session_name, AllWindows[next].window)

(***************************************************************************)
(* C8. Abort on first failed mutating command: in a non-dry-run            *)
(* invocation a command that exits non-zero is the last command of the     *)
(* run (nothing is issued after it, it is not retried), the run is in      *)
(* error, and every session and window created earlier in the run is       *)
(* still there.                                                            *)
(***************************************************************************)
C8_AbortOnFailedCommand ==
    /\ \A i \in 1..Len(issued) :
          ~issued[i].ok => /\ i = Len(issued)
                           /\ pc = "error"
                           /\ cause \in {"command", "exec"}
    /\ (pc = "error" /\ cause = "command")
          => /\ issued # <<>> /\ ~issued[Len(issued)].ok
             /\ IsMutating(issued[Len(issued)].cmd)
    /\ \A i \in 1..Len(issued) :
          (IsCreate(issued[i].cmd) /\ issued[i].ok)
              => issued[i].cmd.name \in NamesIn(server, issued[i].cmd.session)

\* a send-keys failed after a session and two windows had been created
C8_Witness ==
    /\ pc = "error" /\ cause = "command"
    /\ issued[Len(issued)].cmd.op = "send-keys"
    /\ Cardinality({i \in 1..Len(issued) : IsCreate(issued[i].cmd) /\ issued[i].ok}) >= 2
    /\ server # server0

(***************************************************************************)
(* C9. Re-running is safe and never duplicates: in every step of every     *)
(* invocation, also after aborted ones, a new-session is executed only for *)
(* a session the server does not have and a new-window only for a name the *)
(* session does not hold; a server without duplicate window names stays    *)
(* without them.                                                           *)
(***************************************************************************)
C9_Step ==
    /\ \A i \in (Len(issued) + 1)..Len(issued') :
          LET c == issued'[i].cmd
          IN /\ c.op = "new-session" => c.session \notin DOMAIN server
             /\ c.op = "new-window" => c.name \notin NamesIn(server, c.session)
    /\ NoDuplicates(server) => NoDuplicates(server')

C9_NeverDuplicates == [][C9_Step]_vars

\* after an aborted invocation a second one created what was missing
C9_Witness ==
    /\ run = 2 /\ prev.pc = "error" /\ Succeeded /\ ~is_dry_run
    /\ NoDuplicates(server)
    /\ \E i \in 1..Len(issued) : issued[i].cmd.op = "new-window"
    /\ \E s \in DOMAIN server : Cardinality(DOMAIN server[s]) >= 3

(***************************************************************************)
(* C10. Dry-run does not mutate: with is_dry_run set no command is         *)
(* executed, attach included, and the server is what it was before the     *)
(* invocation.                                                             *)
(***************************************************************************)
C10_DryRunDoesNotMutate ==
    is_dry_run => /\ issued = <<>>
                  /\ server = server0
                  /\ gather_tmux_state(server) = gather_tmux_state(server0)
                  /\ pc # "exec"

\* a dry run over two sessions returned its commands; the server is not running
C10_Witness ==
    /\ is_dry_run /\ pc = "done"
    /\ Len(config.sessions) = 2
    /\ Len(commands) >= 3
    /\ gather_tmux_state(server) = <<>>

(***************************************************************************)
(* The window loop of startup_tmux as one function: every ensure_window    *)
(* in configuration order from a tracked state and a server, no command    *)
(* made to fail from outside. `commands` is the list handed back (only     *)
(* kept when every window went through), `issued` what was executed.       *)
(***************************************************************************)
RECURSIVE RunWindows(_, _, _, _, _, _)
RunWindows(ws, k, tracked, srv, dry, testing) ==
    IF k > Len(ws) THEN [status |-> "ok", commands |-> <<>>, issued |-> <<>>]
    ELSE LET o == ensure_window(ws[k].session_name, ws[k].window, ws[k].index, crates,
                                tracked, srv, dry, testing, 0)
         IN IF o.status # "ok"
            THEN [status |-> o.status, commands |-> <<>>, issued |-> o.issued]
            ELSE LET rest == RunWindows(ws, k + 1, o.current_state, o.server, dry, testing)
                 IN [status |-> rest.status,
                     commands |-> IF rest.status = "ok" THEN o.executed \o rest.commands
                                  ELSE <<>>,
                     issued |-> o.issued \o rest.issued]

\* the non-dry-run invocation from the initial server of this invocation
RealRun == RunWindows(AllWindows, 1, gather_tmux_state(server0), server0, FALSE, is_testing)

\* the create and send-keys commands of a list
Mutating(cmds) == SelectSeq(cmds, IsMutating)

CommandsOf(log) == [i \in 1..Len(log) |-> log[i].cmd]

\* what startup_tmux hands back: Ok(commands), or no list at all
Returned == IF pc = "done" THEN commands ELSE <<>>

(***************************************************************************)
(* C11. Dry-run reports the same plan: the create and send-keys commands   *)
(* that a finished dry-run invocation hands back (none when it ends in an  *)
(* error or a panic) are, in order, the commands that the non-dry-run      *)
(* invocation issues from the same initial server when each of its         *)
(* commands succeeds.                                                      *)
(***************************************************************************)
C11_DryRunReportsSamePlan ==
    (is_dry_run /\ Finished /\ \A i \in 1..Len(RealRun.issued) : RealRun.issued[i].ok)
        => Mutating(Returned) = Mutating(CommandsOf(RealRun.issued))

\* the same, for the dry runs that hand back a list
C11_SamePlanWhenReturned ==
    (is_dry_run /\ pc = "done" /\ \A i \in 1..Len(RealRun.issued) : RealRun.issued[i].ok)
        => /\ Mutating(Returned) = Mutating(CommandsOf(RealRun.issued))
           /\ RealRun.status = "ok"

(***************************************************************************)
(* Vocabulary of the attach step.                                          *)
(***************************************************************************)
\* maybe_attach_tmux was called and ended (Ok or Err)
AttachStepDone ==
    config.has_tmux /\ (pc \in {"done", "exec"} \/ (pc = "error" /\ cause = "exec"))

\* the attach command was handed to exec
ExecAttempted == \E i \in 1..Len(issued) : issued[i].cmd.op = "attach"

\* the attach command was handed back to the caller
AttachReturned == \E i \in 1..Len(commands) : commands[i].op = "attach"

AttachCommands ==
    {commands[i] : i \in {j \in 1..Len(commands) : commands[j].op = "attach"}}
    \cup {issued[i].cmd : i \in {j \in 1..Len(issued) : issued[j].cmd.op = "attach"}}

\* the arguments of an attach command (lines 99-103)
AttachArgs(cmd) == IF cmd.session = "" THEN <<"attach">> ELSE <<"attach", "-t", cmd.session>>

(***************************************************************************)
(* C12. Attach decision table: once the window loop is through, the attach *)
(* step produces an attach command (executed or handed back) never when    *)
(* should_attach is Some(false), always when it is Some(true) and, when it *)
(* is None, exactly when $TMUX is not set.                                 *)
(***************************************************************************)
C12_AttachDecisionTable ==
    /\ should_attach = "false" => AttachCommands = {}
    /\ AttachStepDone =>
          /\ should_attach = "true" => AttachCommands # {}
          /\ should_attach = "none" => (AttachCommands # {} <=> ~in_tmux)

\* a run started inside tmux without --attach created a window and its
\* attach step produced nothing
C12_Witness ==
    /\ AttachStepDone /\ should_attach = "none" /\ in_tmux
    /\ AttachCommands = {}
    /\ \E i \in 1..Len(issued) : IsCreate(issued[i].cmd)

(***************************************************************************)
(* C13. Attach targeting: every attach command produced is `attach -t S`   *)
(* when the configuration declares default_session = S and plain `attach`  *)
(* when it declares none, whatever sessions are configured, exist or were  *)
(* created.                                                                *)
(***************************************************************************)
C13_AttachTargeting ==
    \A cmd \in AttachCommands :
        AttachArgs(cmd) = IF config.default_session = "" THEN <<"attach">>
                          ELSE <<"attach", "-t", config.default_session>>

\* attach targets default_session "work" although the run created session
\* foo and no session work is configured or running
C13_Witness ==
    /\ AttachStepDone
    /\ config.default_session = "work"
    /\ "work" \notin DOMAIN server /\ "foo" \in DOMAIN server /\ "foo" \notin DOMAIN server0
    /\ \E cmd \in AttachCommands : AttachArgs(cmd) = <<"attach", "-t", "work">>

MissingAt == {i \in 1..Len(pwindow.linked_crates) : pwindow.linked_crates[i] \notin DOMAIN crates}

Planned == pc \in {"planned", "executed", "error"}

(***************************************************************************)
(* C15. Planner ordering: when every linked crate resolves, the planner    *)
(* returns one PATH export per linked_crates entry, in declared order and  *)
(* built from the crate's resolved path, followed by the window's own      *)
(* commands (one for a single string, the elements in order for a list);   *)
(* it returns None exactly when that list is empty.                        *)
(***************************************************************************)
C15_PlannerOrdering ==
    (Planned /\ MissingAt = {})
        => LET lc == pwindow.linked_crates
               own == pwindow.command.cmds
               n == Len(lc)
           IN /\ plan.ok
              /\ pwindow.command.kind = "Single" => Len(own) = 1
              /\ pwindow.command.kind = "None" => Len(own) = 0
              /\ Len(plan.commands) = n + Len(own)
              /\ \A i \in 1..n : plan.commands[i] = ExportPath(crates[lc[i]])
              /\ \A j \in 1..Len(own) : plan.commands[n + j] = own[j]
              /\ ~plan.some <=> (n + Len(own) = 0)

\* linked crates [k2, k1] and a list of two commands: two exports in that
\* order, then the two commands
C15_Witness ==
    /\ Planned
    /\ pwindow.linked_crates = <<"k2", "k1">>
    /\ pwindow.command.kind = "Multiple" /\ Len(pwindow.command.cmds) = 2
    /\ plan.some
    /\ plan.commands = <<ExportPath(CratePath("k2")), ExportPath(CratePath("k1"))>>
                         \o pwindow.command.cmds

(***************************************************************************)
(* C16. Planner failure is all-or-nothing: when some entry of              *)
(* linked_crates is not in the crate map, wherever it stands in the list,  *)
(* the planner fails with an error naming the first such crate and the     *)
(* window, it yields no command, and execute_command ends in that error    *)
(* without having issued any send-keys to the window.                      *)
(***************************************************************************)
C16_PlannerAllOrNothing ==
    (Planned /\ MissingAt # {})
        => LET first == CHOOSE i \in MissingAt : \A j \in MissingAt : i <= j
           IN /\ ~plan.ok
              /\ plan.error = CrateNotFound(pwindow.linked_crates[first], pwindow.name)
              /\ plan.commands = <<>>
              /\ issued = <<>> /\ commands = <<>>
              /\ pc \in {"planned", "error"}
              /\ pc = "error" => cause = "crate"

\* k1 resolves and stands first, k2 does not: nothing was sent, not even
\* the export for k1 or the window's own command
C16_Witness ==
    /\ pc = "error" /\ cause = "crate" /\ ~is_dry_run
    /\ pwindow.linked_crates = <<"k1", "k2">>
    /\ DOMAIN crates = {"k1"}
    /\ pwindow.command.kind = "Single"
    /\ plan.error = CrateNotFound("k2", "bar")
    /\ issued = <<>>

(***************************************************************************)
(* C17. A failing list query is fatal: when, with the server running, the  *)
(* list-sessions query or the list-windows query of an existing session    *)
(* exits non-zero in startup_tmux's gather_tmux_state, the invocation ends *)
(* in a fatal error there and no create or send-keys command is issued.    *)
(***************************************************************************)
\* the failing query was issued to a running server
QueryFailed ==
    /\ pc # "start"
    /\ \/ query_fails = "list-sessions" /\ server0 # <<>>
       \/ query_fails = "list-windows" /\ QueriedSession \in DOMAIN server0

C17_FailedQueryIsFatal ==
    QueryFailed => /\ pc \in {"error", "panic"}
                   /\ \A i \in 1..Len(issued) : ~IsMutating(issued[i].cmd)

(***************************************************************************)
(* ensure_window with lines 191 and 275 taken out: what the step does      *)
(* when no comparison is made.                                             *)
(***************************************************************************)
CreateWindowUncompared(session_name, window, window_index, crate_map, tracked, srv, dry, failAt) ==
    LET exists == session_name \in DOMAIN tracked
        create == IF exists THEN NewWindowCmd(session_name, window, window_index)
                  ELSE NewSessionCmd(session_name, window)
        keys   == SendKeysFor(session_name, window, crate_map)
        r      == RunFrom(<<create>> \o keys.cmds, 1, srv, dry, failAt)
    IN IF ~r.ok THEN Outcome("error", "command", tracked, r.server, <<>>, r.issued)
       ELSE IF ~keys.ok THEN Outcome("error", "crate", tracked, r.server, <<>>, r.issued)
       ELSE IF ~exists
            THEN Outcome("ok", "",
                         [s \in DOMAIN tracked \cup {session_name} |->
                             IF s = session_name THEN <<window.name>> ELSE tracked[s]],
                         r.server, r.executed, r.issued)
       ELSE IF window_index > Len(tracked[session_name])
            THEN Outcome("panic", "insert", tracked, r.server, <<>>, r.issued)
       ELSE Outcome("ok", "",
                    [tracked EXCEPT ![session_name] = VecInsert(@, window_index, window.name)],
                    r.server, r.executed, r.issued)

ensure_window_uncompared(session_name, window, window_index, crate_map, tracked, srv, dry, failAt) ==
    IF session_name \in DOMAIN tracked /\ Contains(tracked[session_name], window.name)
    THEN Outcome("ok", "", tracked, srv, <<>>, <<>>)
    ELSE CreateWindowUncompared(session_name, window, window_index, crate_map, tracked, srv,
                                dry, failAt)

(***************************************************************************)
(* C18. Handling of a state-consistency violation, for every ensure_window *)
(* step. With the testing flag: a step that starts with a tracked state    *)
(* different from a fresh query panics in the comparison without issuing   *)
(* anything; a step that goes through leaves the two equal (the comparison *)
(* at its end passed); a panic in the comparison happens only on a         *)
(* difference. Without the testing flag no step panics in the comparison   *)
(* and the step issues and tracks what ensure_window without its           *)
(* comparisons does.                                                       *)
(***************************************************************************)
C18_Step ==
    (pc = "windows" /\ next <= Len(AllWindows))
        => LET w == AllWindows[next]
               differs == current_state # gather_tmux_state(server)
               differs2 == current_state' # gather_tmux_state(server')
           IN /\ (is_testing /\ differs)
                    => /\ pc' = "panic" /\ cause' = "compare"
                       /\ issued' = issued /\ commands' = commands /\ server' = server
              /\ (is_testing /\ pc' = "windows") => ~differs2
              /\ (pc' = "panic" /\ cause' = "compare") => (is_testing /\ differs2)
              /\ ~is_testing
                    => \E failAt \in 0..Len(issued') :
                          \E o \in {ensure_window_uncompared(w.session_name, w.window, w.index,
                                        crates, current_state, server, is_dry_run, failAt)} :
                             /\ issued' = issued \o o.issued
                             /\ commands' = commands \o o.executed
                             /\ server' = o.server
                             /\ current_state' = o.current_state
                             /\ pc' = IF o.status = "ok" THEN "windows" ELSE o.status

C18_ConsistencyHandling == [][C18_Step]_vars

\* under the testing flag the first step met a tracked state that a failed
\* list-windows had emptied, and panicked before issuing anything
C18_Witness ==
    /\ is_testing /\ ~is_dry_run
    /\ pc = "panic" /\ cause = "compare"
    /\ query_fails = "list-windows"
    /\ current_state # gather_tmux_state(server)
    /\ issued = <<>> /\ server = server0

\* without the testing flag a run went on and ended although the tracked
\* state had parted from the server
C18_WitnessLogged ==
    /\ ~is_testing /\ ~is_dry_run /\ query_fails = "none"
    /\ pc = "done"
    /\ current_state # gather_tmux_state(server)
    /\ Len(issued) >= 2

(***************************************************************************)
(* C19. Convergence: when a non-dry-run invocation has gone through        *)
(* (startup_tmux returned Ok, or the process was replaced by the attach),  *)
(* every configured session that declares a window exists on the server    *)
(* and holds a window of every name declared for it.                       *)
(***************************************************************************)
C19_Convergence ==
    (~is_dry_run /\ Succeeded /\ config.has_tmux)
        => \A i \in 1..Len(config.sessions) :
              LET s == config.sessions[i]
              IN s.windows # <<>>
                    => /\ s.name \in DOMAIN server
                       /\ \A k \in 1..Len(s.windows) : s.windows[k] \in NamesIn(server, s.name)
                       /\ \A k \in 1..Len(s.windows) :
                             Contains(gather_tmux_state(server)[s.name], s.windows[k])

\* the server held session work with window bar; the run created session
\* foo and added qux to work
C19_Witness ==
    /\ ~is_dry_run /\ pc = "done"
    /\ server0 = ("work" :> (base_index :> "bar"))
    /\ Len(config.sessions) = 2
    /\ config.sessions[2] = Session("work", <<"qux">>)
    /\ "foo" \in DOMAIN server
    /\ NamesIn(server, "work") = {"bar", "qux"}

(***************************************************************************)
(* C20. cache-shell-setup is all-or-nothing on failure: a source file with *)
(* a `# CMD:` that exits non-zero or a `# FETCH:` that fails makes run end *)
(* in an error, never in Ok, and when run has ended in an error (and up to *)
(* the moment every file is processed) the file tree is what it was        *)
(* before: source files and destination, the destination's existence       *)
(* included.                                                               *)
(***************************************************************************)
SomeFileFails ==
    \E path \in SourceFiles(tree0.files) : ~NewContent(tree0.files[path]).ok

C20_AllOrNothing ==
    /\ cpc \in {"processing", "error"} => tree = tree0
    /\ cpc = "error" => (SomeFileFails /\ temp = <<>>)
    /\ cpc = "ok" => ~SomeFileFails

\* the second file visited failed after the first had been expanded; the
\* destination still holds the output of the earlier run
C20_Witness ==
    /\ cpc = "error" /\ strategy = "Clear"
    /\ Cardinality(todo) = 1
    /\ tree.dest_exists
    /\ <<"zsh", "dist", "zshrc">> \in DOMAIN tree.files
    /\ tree.files[<<"zsh", "dist", "zshrc">>] = Original
    /\ tree = tree0

(***************************************************************************)
(* Vocabulary of repeated window names.                                    *)
(***************************************************************************)
\* AllWindows[k] repeats the name of an earlier window of the same
\* configured session (Flatten keeps the windows of a session together,
\* with index counting from 0)
SecondOccurrence(k) ==
    \E j \in 1..(k - 1) :
        /\ AllWindows[j].session_name = AllWindows[k].session_name
        /\ AllWindows[j].window.name = AllWindows[k].window.name
        /\ k - j = AllWindows[k].index - AllWindows[j].index

HasDuplicateWindow == \E k \in 1..Len(AllWindows) : SecondOccurrence(k)

\* the successful create commands of the run for session:name
CreateCount(session_name, name) ==
    Cardinality({i \in 1..Len(issued) :
                    /\ IsCreate(issued[i].cmd) /\ issued[i].ok
                    /\ issued[i].cmd.session = session_name
                    /\ issued[i].cmd.name = name})

(***************************************************************************)
(* C21. Duplicate window name within a session: the second occurrence of a *)
(* name takes the skip path (the run creates a window of that name at most *)
(* once), and the duplicate does not make the run fail: a non-dry-run      *)
(* whose commands all succeed and whose crates all resolve, without the    *)
(* testing flag, goes through every window and completes.                  *)
(***************************************************************************)
C21_DuplicateIsSkipped ==
    (HasDuplicateWindow /\ ~is_dry_run /\ ~is_testing)
        => /\ \A k \in 1..Len(AllWindows) :
                 SecondOccurrence(k)
                     => CreateCount(AllWindows[k].session_name, AllWindows[k].window.name) <= 1
           /\ (Finished /\ ~Succeeded) => cause \in {"command", "crate", "exec"}

(***************************************************************************)
(* C27. Tracked-list insertion is always in bounds: no run ends in the     *)
(* panic of Vec::insert, that is, whenever ensure_window inserts a name    *)
(* into the tracked list of an existing session the zero-based             *)
(* configuration position is at most the length of the list.               *)
(***************************************************************************)
C27_InsertionInBounds == ~(pc = "panic" /\ cause = "insert")

(***************************************************************************)
(* C22. Create-window index rule. In every step of the window loop, each   *)
(* new-window command the step runs or returns is for the window being     *)
(* processed, targets session:(1 + the window's zero-based position in its *)
(* session's configured list) and carries -b, whatever windows the session *)
(* holds; and when the step adds to the tracked list of a session that was *)
(* tracked, the list becomes the old one with the name inserted at the     *)
(* zero-based configuration position.                                      *)
(***************************************************************************)
NewSince(old, new) == SubSeq(new, Len(old) + 1, Len(new))

C22_Step ==
    (pc = "windows" /\ next <= Len(AllWindows))
        => LET w == AllWindows[next]
               ran == NewSince(issued, issued')
               returned == NewSince(commands, commands')
               made == {c \in {ran[i].cmd : i \in 1..Len(ran)} \cup Range(returned) :
                          c.op = "new-window"}
           IN /\ \A c \in made :
                    /\ c.session = w.session_name /\ c.name = w.window.name
                    /\ c.target = 1 + w.index
                    /\ SubSeq(Args(c, socket_name), 3, 8)
                          = <<"new-window", "-t",
                              w.session_name \o ":" \o ToString(1 + w.index),
                              "-n", w.window.name, "-b">>
              /\ (w.session_name \in DOMAIN current_state /\ current_state' # current_state)
                    => LET old == current_state[w.session_name]
                       IN /\ w.index <= Len(old)
                          /\ current_state' =
                                [current_state EXCEPT ![w.session_name] =
                                    SubSeq(old, 1, w.index) \o <<w.window.name>>
                                    \o SubSeq(old, w.index + 1, Len(old))]

C22_IndexRule == [][C22_Step]_vars

\* a session that held two windows was given a new window at index 1, the
\* first configured position, and the tracked list starts with its name
C22_Witness ==
    /\ Succeeded
    /\ "foo" \in DOMAIN server0 /\ Cardinality(DOMAIN server0["foo"]) = 2
    /\ \E i \in 1..Len(issued) :
          /\ issued[i].ok /\ issued[i].cmd.op = "new-window"
          /\ issued[i].cmd.session = "foo" /\ issued[i].cmd.target = 1
          /\ current_state["foo"][1] = issued[i].cmd.name
          /\ Len(current_state["foo"]) = 3

(***************************************************************************)
(* C23. Reconciliation is purely additive. At every point of a run, each   *)
(* session that existed before the run still exists and lists the windows  *)
(* it had, under their names and in their order, possibly with new windows *)
(* between them; a session whose name is not configured holds exactly the  *)
(* windows it had, at the indices they had.                                *)
(***************************************************************************)
RECURSIVE IsSubsequence(_, _)
IsSubsequence(a, b) ==
    IF a = <<>> THEN TRUE
    ELSE IF b = <<>> THEN FALSE
    ELSE IF Head(a) = Head(b) THEN IsSubsequence(Tail(a), Tail(b))
    ELSE IsSubsequence(a, Tail(b))

ConfiguredSessions ==
    IF config.has_tmux
    THEN {config.sessions[i].name : i \in {j \in 1..Len(config.sessions) :
                                             config.sessions[j].windows # <<>>}}
    ELSE {}

C23_PurelyAdditive ==
    \A s \in DOMAIN server0 :
        /\ s \in DOMAIN server
        /\ IsSubsequence(ListWindows(server0[s]), ListWindows(server[s]))
        /\ Cardinality(DOMAIN server[s]) - Cardinality(DOMAIN server0[s])
              = Cardinality({i \in 1..Len(issued) :
                               /\ issued[i].ok /\ issued[i].cmd.op = "new-window"
                               /\ issued[i].cmd.session = s})
        /\ s \notin ConfiguredSessions => server[s] = server0[s]

\* a window was created at an index that was taken: the window that held
\* the index is still there, further right, after the same neighbours
C23_Witness ==
    /\ Succeeded
    /\ "foo" \in DOMAIN server0 /\ Cardinality(DOMAIN server0["foo"]) = 2
    /\ \E i \in 1..Len(issued) :
          /\ issued[i].ok /\ issued[i].cmd.op = "new-window"
          /\ issued[i].cmd.target \in DOMAIN server0["foo"]
          /\ server["foo"][issued[i].cmd.target] = issued[i].cmd.name
          /\ server["foo"][issued[i].cmd.target + 1] = server0["foo"][issued[i].cmd.target]
          /\ server0["foo"][issued[i].cmd.target] # issued[i].cmd.name

\* a running session that the configuration does not name is as it was
\* after a run that created another session
C23_WitnessOtherSession ==
    /\ Succeeded
    /\ "work" \in DOMAIN server0 /\ "work" \notin ConfiguredSessions
    /\ "foo" \in DOMAIN server /\ server["work"] = server0["work"]

(***************************************************************************)
(* C24. Order of issued commands. In the commands a run has executed and   *)
(* in the list it returns: commands come in the order of the configuration *)
(* (sessions in order, windows in order within a session) and none is for  *)
(* a window the loop has not reached; every send-keys follows the create   *)
(* of its window with nothing but that window's send-keys in between, and  *)
(* carries the planner's command of its place; once a command for a later  *)
(* window or the attach follows, the create has all of its send-keys after *)
(* it; and an attach command is the last element and is produced only      *)
(* after the loop went through every window.                               *)
(***************************************************************************)
\* position in the configuration aw of the window a command is about; the
\* attach command comes after all of them
Pos(aw, cmd) ==
    IF cmd.op = "attach" THEN Len(aw) + 1
    ELSE CHOOSE k \in 1..Len(aw) :
            /\ aw[k].session_name = cmd.session
            /\ aw[k].window.name = cmd.name
            /\ \A j \in 1..(k - 1) : ~(/\ aw[j].session_name = cmd.session
                                       /\ aw[j].window.name = cmd.name)

\* the planner's commands for the window configured under a name
PlanOf(name) ==
    LET p == determine_commands_for_window(WindowDef(name), crates)
    IN IF p.ok /\ p.some THEN p.commands ELSE <<>>

\* cs is in the order of the configuration aw, with the planned commands
\* plans[name] after the create of each window
InOrder(aw, plans, cs) ==
    \A i \in 1..Len(cs) :
        /\ i < Len(cs) => Pos(aw, cs[i]) <= Pos(aw, cs[i + 1])
        /\ cs[i].op # "attach" => Pos(aw, cs[i]) <= next
        /\ cs[i].op = "attach" => (i = Len(cs) /\ next > Len(aw))
        /\ cs[i].op = "send-keys" =>
              \E d \in 1..Len(plans[cs[i].name]) :
                  /\ d < i
                  /\ IsCreate(cs[i - d])
                  /\ cs[i - d].session = cs[i].session /\ cs[i - d].name = cs[i].name
                  /\ cs[i].keys = plans[cs[i].name][d]
                  /\ \A k \in 1..(d - 1) : cs[i - k].op = "send-keys"
        /\ (IsCreate(cs[i]) /\ Pos(aw, cs[Len(cs)]) > Pos(aw, cs[i]))
              => \A k \in 1..Len(plans[cs[i].name]) :
                    /\ cs[i + k].op = "send-keys"
                    /\ cs[i + k].session = cs[i].session /\ cs[i + k].name = cs[i].name
                    /\ cs[i + k].keys = plans[cs[i].name][k]

C24_CommandOrder ==
    (commands # <<>> \/ issued # <<>>)
        => \A aw \in {AllWindows} : \A plans \in {[n \in WindowNames |-> PlanOf(n)]} :
              InOrder(aw, plans, commands) /\ InOrder(aw, plans, CommandsOf(issued))

\* a dry run over foo: [baz, qux] returned, in this order, the create of
\* baz, its two commands, the create of qux, the two PATH exports, its
\* command, and the attach
C24_Witness ==
    /\ pc = "done" /\ is_dry_run
    /\ Len(commands) = 8
    /\ commands[1].name = "baz" /\ IsCreate(commands[1])
    /\ commands[3].keys = [kind |-> "command", text |-> "b2"]
    /\ commands[4].name = "qux" /\ IsCreate(commands[4])
    /\ commands[5].keys = ExportPath(CratePath("k1"))
    /\ commands[7].keys = [kind |-> "command", text |-> "q1"]
    /\ commands[8].op = "attach"

(***************************************************************************)
(* C25. Working directory and environment are applied at creation only.    *)
(* Every new-session and new-window command a run executes or returns has, *)
(* after its fixed arguments, `-c path` exactly when its window declares a *)
(* path, and then one `-e key=value` pair for each entry of the window's   *)
(* env, each key once, by ascending key, and nothing else; no other        *)
(* command carries -c or -e, and no create command is for a window that    *)
(* existed before the run.                                                 *)
(***************************************************************************)
\* number of arguments of a create command before its path and env: up to
\* the window name of new-session, up to the -b of new-window
FixedArgs(c, args) == PositionIn(args, "-n") + (IF c.op = "new-window" THEN 2 ELSE 1)

AllCommands == Range(commands) \cup Range(CommandsOf(issued))

C25_CreateArgs(c, w, args) ==
    LET tail == SubSeq(args, FixedArgs(c, args) + 1, Len(args))
        declared == w.path # ""
        pairs == SubSeq(tail, IF declared THEN 3 ELSE 1, Len(tail))
        KeyAt(i) == CHOOSE k \in DOMAIN w.env : pairs[2 * i] = k \o "=" \o w.env[k]
    IN /\ declared => (Len(tail) >= 2 /\ tail[1] = "-c" /\ tail[2] = w.path)
       /\ ~declared => "-c" \notin Range(args)
       /\ Len(pairs) = 2 * Cardinality(DOMAIN w.env)
       /\ \A i \in 1..Cardinality(DOMAIN w.env) :
             /\ pairs[2 * i - 1] = "-e"
             /\ \E k \in DOMAIN w.env : pairs[2 * i] = k \o "=" \o w.env[k]
             /\ \A j \in 1..(i - 1) :
                   PositionIn(EnvKeys, KeyAt(j)) < PositionIn(EnvKeys, KeyAt(i))

C25_PathAndEnvAtCreation ==
    \A c \in AllCommands : \A args \in {Args(c, socket_name)} :
        IF IsCreate(c)
        THEN /\ \A w \in {WindowDef(c.name)} : C25_CreateArgs(c, w, args)
             /\ c.session \in DOMAIN server0 => c.name \notin NamesIn(server0, c.session)
        ELSE "-c" \notin Range(args) /\ "-e" \notin Range(args)

\* session foo held bar; a run over foo: [bar, qux] issued nothing for bar
\* and created qux in its directory with BAZ before FOO
C25_Witness ==
    /\ Succeeded /\ ~is_dry_run
    /\ "foo" \in DOMAIN server0 /\ "bar" \in NamesIn(server0, "foo")
    /\ Len(AllWindows) = 2 /\ AllWindows[1].window.name = "bar"
    /\ \A i \in 1..Len(issued) : issued[i].cmd.name # "bar"
    /\ \E i \in 1..Len(issued) :
          /\ issued[i].ok /\ issued[i].cmd.op = "new-window"
          /\ Args(issued[i].cmd, socket_name)
                = <<"-L", "default", "new-window", "-t", "foo:2", "-n", "qux", "-b",
                    "-c", "/ws/qux", "-e", "BAZ=qux", "-e", "FOO=bar">>

(***************************************************************************)
(* C28. Dry-run is compatible with the strict consistency check: in a run  *)
(* with is_dry_run and _is_testing both set, over a configuration with a   *)
(* window that the server does not hold, the comparison of the tracked     *)
(* with the actual state never panics.                                     *)
(***************************************************************************)
RequiresCreation ==
    \E k \in 1..Len(AllWindows) :
        AllWindows[k].window.name \notin NamesIn(server0, AllWindows[k].session_name)

C28_DryRunPassesStrictCheck ==
    (is_dry_run /\ is_testing /\ RequiresCreation) => ~(pc = "panic" /\ cause = "compare")

(***************************************************************************)
(* C29. No created window loses its startup commands: when a real run has  *)
(* succeeded, whatever runs came before it, every window that the server   *)
(* holds and did not hold before the first run has been sent the planner's *)
(* commands for it, each once and in the planner's order.                  *)
(***************************************************************************)
KeysSentTo(session_name, name) ==
    LET sent == SelectSeq(keyed, LAMBDA e : e[1] = session_name /\ e[2] = name)
    IN [i \in 1..Len(sent) |-> sent[i][3]]

C29_NoLostStartupCommands ==
    (Succeeded /\ ~is_dry_run)
        => \A s \in DOMAIN server :
              \A n \in NamesIn(server, s) \ NamesIn(server0, s) :
                  KeysSentTo(s, n) = PlanOf(n)

(***************************************************************************)
(* C30. One server per run: every command of a run, the queries of the     *)
(* state included, addresses the server of the socket that the options     *)
(* name, or of "default" when they name none.                              *)
(***************************************************************************)
\* the socket a tmux command line addresses: the one after -L; without -L
\* tmux takes its default socket (inside tmux, the one of $TMUX), whatever
\* the options of the run say
SocketOf(args) ==
    IF Len(args) >= 2 /\ args[1] = "-L" THEN args[2] ELSE "default"

C30_OneServerPerRun ==
    /\ SocketOf(ListSessionsArgs(socket_name)) = get_socket_name(socket_name)
    /\ \A s \in DOMAIN server :
          SocketOf(ListWindowsArgs(socket_name, s)) = get_socket_name(socket_name)
    /\ \A c \in AllCommands : SocketOf(Args(c, socket_name)) = get_socket_name(socket_name)

(***************************************************************************)
(* C26. Concurrent invocations are not protected. With two invocations     *)
(* interleaved on one server, the guarantees of a single invocation fail   *)
(* in some interleavings (C26_Witness), and they fail only through what    *)
(* the other invocation did: in a real run, an invocation in or through    *)
(* its window loop tracks a state that differs from the server's only if   *)
(* the other invocation created something; a session holds two windows of  *)
(* one name, or its windows in another order than the configuration's,     *)
(* only if both invocations created windows. The configurations name no    *)
(* window twice.                                                           *)
(***************************************************************************)
Invocations == {Locals(run), other}

Created(inv) ==
    {inv.issued[i].cmd : i \in {j \in 1..Len(inv.issued) :
                                   inv.issued[j].ok /\ IsCreate(inv.issued[j].cmd)}}

TracksActual(inv) ==
    /\ DOMAIN inv.current_state = DOMAIN server
    /\ \A s \in DOMAIN server : inv.current_state[s] = ListWindows(server[s])

\* some window of the session comes before one that the configuration
\* declares earlier
OutOfConfigOrder(s) ==
    LET ws == ListWindows(server[s])
        Place(n) == CHOOSE k \in 1..Len(AllWindows) :
                       /\ AllWindows[k].window.name = n
                       /\ \A j \in 1..(k - 1) : AllWindows[j].window.name # n
    IN \E i \in 1..Len(ws) : \E j \in (i + 1)..Len(ws) :
          /\ \E k \in 1..Len(AllWindows) : AllWindows[k].window.name = ws[i]
          /\ \E k \in 1..Len(AllWindows) : AllWindows[k].window.name = ws[j]
          /\ Place(ws[i]) > Place(ws[j])

C26_OnlyByInterference ==
    ~is_dry_run =>
        /\ \A inv \in Invocations :
              (inv.pc \in {"windows", "done", "exec"} /\ ~TracksActual(inv))
                  => \E o \in Invocations \ {inv} : Created(o) # {}
        /\ \A s \in DOMAIN server :
              (~Distinct(ListWindows(server[s])) \/ OutOfConfigOrder(s))
                  => \A inv \in Invocations : Created(inv) # {}

\* both invocations ran foo: [bar, baz, qux] on a session holding bar and
\* both succeeded: each created baz, the session lists a window after one
\* that the configuration declares later, and the running invocation
\* tracks a state that is not the server's
C26_Witness ==
    /\ ~is_dry_run
    /\ \A inv \in Invocations : inv.pc \in {"done", "exec"}
    /\ ~TracksActual(Locals(run))
    /\ \E c \in Created(Locals(run)) : \E d \in Created(other) :
          c.session = d.session /\ c.name = d.name
    /\ OutOfConfigOrder("foo")

====
